---- MODULE Spec2Model ----
(***************************************************************************)
(* A model of chatmat/frontend/src/utils/parseRequest.js:                  *)
(* parseMaterialRequest(text), the request interpreter of ChatMat.         *)
(*                                                                         *)
(* A text is a TLA+ string; its i-th character is SubSeq(text, i, i).      *)
(* The regular expressions of the source are modelled as scanners over    *)
(* the characters of the text; the comment of each scanner says why the    *)
(* scan finds the match the JavaScript engine finds.  One call of the      *)
(* function is a run of the state machine: one action per stage of the     *)
(* function body, in the order of the source.                              *)
(*                                                                         *)
(* On top of the parser: onSend of App.vue with sendCalculationRequest of  *)
(* api/backend.js (the chat, one invocation per submitted text, suspended  *)
(* at each await), and the alignment retry of FloatingInput.vue.           *)
(***************************************************************************)
EXTENDS Integers, Sequences, FiniteSets, TLC

VARIABLES
    text,       \* the argument of the call
    textLower,  \* const textLower (line 7)
    result,     \* const result, the accumulator record (lines 10-21)
    pc,         \* the stage of the function body the call is at
    heap,       \* the objects the calls have created, in the order of their creation
    history,    \* what the caller has done: the calls that returned, the records it changed
    messages,   \* App.vue: const messages (line 26), the chat
    lastXYZ,    \* App.vue: const lastXYZ (line 27), the structure in the visualizer
    debugMode,  \* App.vue: const debugMode (line 28)
    sends,      \* App.vue: the invocations of onSend, in the order they were made
    positionReady,  \* FloatingInput: const positionReady (line 46)
    retryTimer,     \* FloatingInput: let retryTimer (line 47)
    tries,          \* FloatingInput: let tries (line 103)
    intervals,      \* FloatingInput: the interval timers that are running
    phase           \* FloatingInput: where the component is in its life

\* the state of the parser and of its caller, of App.vue, of FloatingInput
parserVars == <<text, textLower, result, pc, heap, history>>
appVars == <<messages, lastXYZ, debugMode, sends>>
inputVars == <<positionReady, retryTimer, tries, intervals, phase>>

vars == <<parserVars, appVars, inputVars>>

-----------------------------------------------------------------------------
\* Characters and strings

Char(s, i) == SubSeq(s, i, i)

From(s, i) == SubSeq(s, i, Len(s))

UpperSeq == "ABCDEFGHIJKLMNOPQRSTUVWXYZ"
LowerSeq == "abcdefghijklmnopqrstuvwxyz"
DigitSeq == "0123456789"

Upper == {Char(UpperSeq, i) : i \in 1..Len(UpperSeq)}
Lower == {Char(LowerSeq, i) : i \in 1..Len(LowerSeq)}
Digit == {Char(DigitSeq, i) : i \in 1..Len(DigitSeq)}

\* \w and \b of a JavaScript regular expression without the u flag
WordChar == Upper \cup Lower \cup Digit \cup {"_"}

\* \s of a JavaScript regular expression (the white space a text of the model can hold)
Space == {" ", "\t", "\n"}

LowerOf == [c \in Upper |-> Char(LowerSeq, CHOOSE i \in 1..Len(UpperSeq) : Char(UpperSeq, i) = c)]

DigitVal == [c \in Digit |-> (CHOOSE i \in 1..Len(DigitSeq) : Char(DigitSeq, i) = c) - 1]

ToLowerChar(c) == IF c \in Upper THEN LowerOf[c] ELSE c

RECURSIVE toLowerCase(_)
toLowerCase(s) ==
    IF s = "" THEN "" ELSE ToLowerChar(Char(s, 1)) \o toLowerCase(From(s, 2))

\* s has k at position i
HasAt(s, i, k) == i + Len(k) - 1 <= Len(s) /\ SubSeq(s, i, i + Len(k) - 1) = k

\* String.prototype.includes
includes(s, k) == \E i \in 1..(Len(s) - Len(k) + 1) : HasAt(s, i, k)

\* the position after the longest run of characters of class C that starts at i
RECURSIVE RunEnd(_, _, _)
RunEnd(s, i, C) ==
    IF i <= Len(s) /\ Char(s, i) \in C THEN RunEnd(s, i + 1, C) ELSE i

\* the least and the greatest member of a non-empty set of positions
Least(S) == CHOOSE i \in S : \A j \in S : i <= j
Greatest(S) == CHOOSE i \in S : \A j \in S : j <= i

\* parseInt of a string of decimal digits
RECURSIVE parseInt(_)
parseInt(d) ==
    IF d = "" THEN 0
    ELSE 10 * parseInt(SubSeq(d, 1, Len(d) - 1)) + DigitVal[Char(d, Len(d))]

\* null, and a value that is present
NULL == << >>
Some(v) == <<v>>

\* App.vue lines 26-28: the component is created
AppCreated ==
    /\ messages = << >>
    /\ lastXYZ = NULL
    /\ debugMode = FALSE
    /\ sends = << >>

\* FloatingInput lines 43-47: the component is created, not mounted yet
InputCreated ==
    /\ positionReady = FALSE
    /\ retryTimer = NULL
    /\ tries = 0
    /\ intervals = {}
    /\ phase = "created"

\* {} : an object without properties, as its set of properties
EmptyObject == {}

-----------------------------------------------------------------------------
\* Lines 23-36: supercell dimensions

\* the characters [x×] and [x×,]
Times == {"x", "×"}
TimesComma == {"x", "×", ","}

\* (\d+)\s*[S]\s*(\d+)\s*[S]\s*(\d+) tried at position i: the three captured
\* digit strings, or NULL.  \d, \s and the separators are disjoint classes,
\* so each greedy \d+ and \s* takes its whole run and giving characters back
\* never produces another match.
TripleAt(s, i, Sep) ==
    LET e1 == RunEnd(s, i, Digit)
        s1 == RunEnd(s, e1, Space)
        b2 == RunEnd(s, s1 + 1, Space)
        e2 == RunEnd(s, b2, Digit)
        s2 == RunEnd(s, e2, Space)
        b3 == RunEnd(s, s2 + 1, Space)
        e3 == RunEnd(s, b3, Digit)
    IN  IF /\ e1 > i
           /\ s1 <= Len(s) /\ Char(s, s1) \in Sep
           /\ e2 > b2
           /\ s2 <= Len(s) /\ Char(s, s2) \in Sep
           /\ e3 > b3
        THEN Some(<<SubSeq(s, i, e1 - 1), SubSeq(s, b2, e2 - 1), SubSeq(s, b3, e3 - 1)>>)
        ELSE NULL

\* the first pattern with the separators of the second
TimesPatternWithComma(s, i) == TripleAt(s, i, TimesComma)

\* /(\d+)\s*[x×]\s*(\d+)\s*[x×]\s*(\d+)/ at position i
TimesPatternAt(s, i) == TripleAt(s, i, Times)

\* /supercell\s*[:\s]+(\d+)\s*[x×,]\s*(\d+)\s*[x×,]\s*(\d+)/ at position i:
\* \s*[:\s]+ takes the whole run of colons and white space, which must hold
\* at least one character.
SupercellPatternAt(s, i) ==
    LET b == i + Len("supercell")
        e == RunEnd(s, b, Space \cup {":"})
    IN  IF HasAt(s, i, "supercell") /\ e > b THEN TripleAt(s, e, TimesComma) ELSE NULL

\* /(\d+)\s+(\d+)\s+(\d+)/ at position i
SpacePatternAt(s, i) ==
    LET e1 == RunEnd(s, i, Digit)
        b2 == RunEnd(s, e1, Space)
        e2 == RunEnd(s, b2, Digit)
        b3 == RunEnd(s, e2, Space)
        e3 == RunEnd(s, b3, Digit)
    IN  IF e1 > i /\ b2 > e1 /\ e2 > b2 /\ b3 > e2 /\ e3 > b3
        THEN Some(<<SubSeq(s, i, e1 - 1), SubSeq(s, b2, e2 - 1), SubSeq(s, b3, e3 - 1)>>)
        ELSE NULL

\* supercellPatterns (lines 24-28), in the order of the array
supercellPatterns == <<"times", "supercell", "space">>

PatternAt(p, s, i) ==
    CASE p = "times" -> TimesPatternAt(s, i)
      [] p = "supercell" -> SupercellPatternAt(s, i)
      [] p = "space" -> SpacePatternAt(s, i)

\* the captures of the rightmost match instead of the leftmost
SupercellMatchLast(p, s) ==
    LET starts == {i \in 1..Len(s) : PatternAt(p, s, i) # NULL}
    IN  IF starts = {} THEN NULL ELSE PatternAt(p, s, Greatest(starts))

\* textLower.match(pattern): the captures of the leftmost match, or NULL
SupercellMatch(p, s) ==
    LET starts == {i \in 1..Len(s) : PatternAt(p, s, i) # NULL}
    IN  IF starts = {} THEN NULL ELSE PatternAt(p, s, Least(starts))

\* the loop of lines 30-36 with the patterns ranked by where they match: the
\* pattern whose leftmost match starts first in the text
SupercellDimsByPosition(s) ==
    LET Starts(k) == {i \in 1..Len(s) : PatternAt(supercellPatterns[k], s, i) # NULL}
        hits == {k \in 1..Len(supercellPatterns) : Starts(k) # {}}
    IN  IF hits = {} THEN NULL
        ELSE LET first == CHOOSE k \in hits :
                              \A j \in hits : Least(Starts(k)) < Least(Starts(j))
                                                 \/ (Least(Starts(k)) = Least(Starts(j)) /\ k <= j)
                 m == SupercellMatch(supercellPatterns[first], s)[1]
             IN  Some(<<parseInt(m[1]), parseInt(m[2]), parseInt(m[3])>>)

\* the loop of lines 30-36: the first pattern of the array that matches
SupercellDims(s) ==
    LET hits == {k \in 1..Len(supercellPatterns) : SupercellMatch(supercellPatterns[k], s) # NULL}
    IN  IF hits = {} THEN NULL
        ELSE LET m == SupercellMatch(supercellPatterns[Least(hits)], s)[1]
             IN  Some(<<parseInt(m[1]), parseInt(m[2]), parseInt(m[3])>>)

-----------------------------------------------------------------------------
\* Lines 38-57: structure type

\* structureKeywords (lines 39-50), in the order of Object.entries
structureKeywords ==
    << [type |-> "fcc", keywords |-> <<"fcc", "face-centered cubic", "face centered cubic">>],
       [type |-> "bcc", keywords |-> <<"bcc", "body-centered cubic", "body centered cubic">>],
       [type |-> "hcp", keywords |-> <<"hcp", "hexagonal close-packed", "hexagonal close packed">>],
       [type |-> "diamond", keywords |-> <<"diamond", "diamond cubic">>],
       [type |-> "sc", keywords |-> <<"sc", "simple cubic">>],
       [type |-> "zincblende", keywords |-> <<"zincblende", "zinc blende", "sphalerite">>],
       [type |-> "rocksalt", keywords |-> <<"rocksalt", "rock salt", "nacl structure">>],
       [type |-> "wurtzite", keywords |-> <<"wurtzite">>],
       [type |-> "perovskite", keywords |-> <<"perovskite">>],
       [type |-> "rutile", keywords |-> <<"rutile">>] >>

\* keywords.some(kw => textLower.includes(kw))
SomeKeyword(keywords, s) == \E k \in 1..Len(keywords) : includes(s, keywords[k])

\* the loop of lines 52-57 writing the keyword that was found, not its type
StructureTypeKeyword(s) ==
    LET hits == {k \in 1..Len(structureKeywords) : SomeKeyword(structureKeywords[k].keywords, s)}
        kws == structureKeywords[Least(hits)].keywords
    IN  IF hits = {} THEN NULL
        ELSE Some(kws[Least({k \in 1..Len(kws) : includes(s, kws[k])})])

\* the entry whose keyword stands first in the text, not first in the table
StructureTypeByPosition(s) ==
    LET hits == {k \in 1..Len(structureKeywords) : SomeKeyword(structureKeywords[k].keywords, s)}
        FirstPos(k) == Least({i \in 1..Len(s) :
                          \E j \in 1..Len(structureKeywords[k].keywords) :
                              HasAt(s, i, structureKeywords[k].keywords[j])})
    IN  IF hits = {} THEN NULL
        ELSE Some(structureKeywords[CHOOSE k \in hits :
                      \A j \in hits : FirstPos(k) < FirstPos(j) \/ (FirstPos(k) = FirstPos(j) /\ k <= j)].type)

\* the loop of lines 52-57: the first entry with a keyword in the text
StructureType(s) ==
    LET hits == {k \in 1..Len(structureKeywords) : SomeKeyword(structureKeywords[k].keywords, s)}
    IN  IF hits = {} THEN NULL ELSE Some(structureKeywords[Least(hits)].type)

-----------------------------------------------------------------------------
\* Lines 59-71: lattice parameter

\* the class [\d.]
DigitDot == Digit \cup {"."}

\* /[al]\s*=\s*([\d.]+)/ and /a\s*=\s*([\d.]+)/ at position i, First being
\* the characters the pattern starts with: the captured string, or NULL.
\* The classes that follow one another are disjoint, so each greedy run takes
\* all of its characters.
EqualsPatternAt(s, i, First) ==
    LET q == RunEnd(s, i + 1, Space)
        b == RunEnd(s, q + 1, Space)
        e == RunEnd(s, b, DigitDot)
    IN  IF /\ Char(s, i) \in First
           /\ q <= Len(s) /\ Char(s, q) = "="
           /\ e > b
        THEN Some(SubSeq(s, b, e - 1))
        ELSE NULL

\* /lattice\s*(?:parameter|constant)?\s*[:=]?\s*([\d.]+)/ at position i.
\* The optional word can only start where the white space after "lattice"
\* ends, and without it the match fails at its first letter, so the word is
\* taken exactly when it is there; so is the optional [:=].
LatticePatternAt(s, i) ==
    LET a == RunEnd(s, i + Len("lattice"), Space)
        g == IF HasAt(s, a, "parameter") THEN a + Len("parameter")
             ELSE IF HasAt(s, a, "constant") THEN a + Len("constant")
             ELSE a
        c == RunEnd(s, g, Space)
        d == IF c <= Len(s) /\ Char(s, c) \in {":", "="} THEN c + 1 ELSE c
        b == RunEnd(s, d, Space)
        e == RunEnd(s, b, DigitDot)
    IN  IF HasAt(s, i, "lattice") /\ e > b THEN Some(SubSeq(s, b, e - 1)) ELSE NULL

\* latticePatterns (lines 60-64), in the order of the array
latticePatterns == <<"al", "lattice", "a">>

LatticeAt(p, s, i) ==
    CASE p = "al" -> EqualsPatternAt(s, i, {"a", "l"})
      [] p = "lattice" -> LatticePatternAt(s, i)
      [] p = "a" -> EqualsPatternAt(s, i, {"a"})

\* textLower.match(pattern): the capture of the leftmost match, or NULL
LatticeMatch(p, s) ==
    LET starts == {i \in 1..Len(s) : LatticeAt(p, s, i) # NULL}
    IN  IF starts = {} THEN NULL ELSE LatticeAt(p, s, Least(starts))

\* a number that is not an integer: num / den; NaN
NaN == [nan |-> TRUE]

RECURSIVE Pow10(_)
Pow10(k) == IF k = 0 THEN 1 ELSE 10 * Pow10(k - 1)

\* a string of digits without the zeros it ends with
RECURSIVE StripZeros(_)
StripZeros(d) ==
    IF d # "" /\ Char(d, Len(d)) = "0" THEN StripZeros(SubSeq(d, 1, Len(d) - 1)) ELSE d

\* parseFloat of a string of digits and dots: the value of its longest prefix
\* of the form digits, digits. , digits.digits or .digits; NaN without one.
parseFloat(c) ==
    LET ip == RunEnd(c, 1, Digit)
        fe == IF ip <= Len(c) /\ Char(c, ip) = "." THEN RunEnd(c, ip + 1, Digit) ELSE ip
        whole == SubSeq(c, 1, ip - 1)
        frac == IF fe > ip THEN StripZeros(SubSeq(c, ip + 1, fe - 1)) ELSE ""
    IN  IF ip = 1 /\ fe <= ip + 1 THEN NaN
        ELSE [num |-> parseInt(whole \o frac), den |-> Pow10(Len(frac))]

\* the loop of lines 65-71: the first pattern of the array that matches
LatticeParameter(s) ==
    LET hits == {k \in 1..Len(latticePatterns) : LatticeMatch(latticePatterns[k], s) # NULL}
    IN  IF hits = {} THEN NULL
        ELSE Some(parseFloat(LatticeMatch(latticePatterns[Least(hits)], s)[1]))

-----------------------------------------------------------------------------
\* Global matches: text.match(/.../g)

\* position q of s holds a word character
IsWordAt(s, q) == q >= 1 /\ q <= Len(s) /\ Char(s, q) \in WordChar

\* \b before position p of s
IsBoundary(s, p) == IsWordAt(s, p - 1) # IsWordAt(s, p)

Optional == {0, 1}

\* /\b([A-Z][a-z]?[A-Z]?[a-z]?\d*)\b/ (line 111) tried at position i: the
\* positions after which a way of matching can end (a, b, c: whether each
\* optional letter is taken; \d* may give digits back).  Every character of
\* a match is a word character and \b follows it, so a match ends where the
\* word ends: whichever way the engine tries first, the match is the same.
CompoundPatternEnds(s, i) ==
    IF ~(i <= Len(s) /\ Char(s, i) \in Upper /\ IsBoundary(s, i)) THEN {}
    ELSE UNION { LET p1 == i + 1
                     p2 == p1 + a
                     p3 == p2 + b
                     p4 == p3 + c
                 IN  IF /\ a = 1 => (p1 <= Len(s) /\ Char(s, p1) \in Lower)
                        /\ b = 1 => (p2 <= Len(s) /\ Char(s, p2) \in Upper)
                        /\ c = 1 => (p3 <= Len(s) /\ Char(s, p3) \in Lower)
                     THEN {e \in p4..RunEnd(s, p4, Digit) : IsBoundary(s, e)}
                     ELSE {}
                 : <<a, b, c>> \in Optional \X Optional \X Optional }

\* /[A-Z][a-z]?/ (line 118) at position i: the greedy optional letter is
\* taken when it is there, nothing follows it.
ElementPatternEnds(s, i) ==
    IF ~(i <= Len(s) /\ Char(s, i) \in Upper) THEN {}
    ELSE IF i + 1 <= Len(s) /\ Char(s, i + 1) \in Lower THEN {i + 2} ELSE {i + 1}

\* /\b([A-Z][a-z]?)\b/ (line 167) at position i
SymbolPatternEnds(s, i) ==
    IF ~(i <= Len(s) /\ Char(s, i) \in Upper /\ IsBoundary(s, i)) THEN {}
    ELSE {e \in {i + 1, i + 2} :
            /\ e = i + 2 => (i + 1 <= Len(s) /\ Char(s, i + 1) \in Lower)
            /\ IsBoundary(s, e)}

PatternEnds(p, s, i) ==
    CASE p = "compound" -> CompoundPatternEnds(s, i)
      [] p = "element" -> ElementPatternEnds(s, i)
      [] p = "symbol" -> SymbolPatternEnds(s, i)

\* s.match(/p/g) || [] : the matches from position i on, each search starting
\* where the match before it ended.
RECURSIVE matchAll(_, _, _)
matchAll(p, s, i) ==
    IF i > Len(s) THEN << >>
    ELSE IF PatternEnds(p, s, i) = {} THEN matchAll(p, s, i + 1)
    ELSE LET e == Least(PatternEnds(p, s, i))
         IN  <<SubSeq(s, i, e - 1)>> \o matchAll(p, s, e)

-----------------------------------------------------------------------------
\* Lines 73-107: the compound dictionary

commonWords == {"the", "for", "get", "calculate", "energy", "force",
                "structure", "supercell", "bulk", "of", "a", "an", "in", "on", "at"}

\* compoundMap (lines 78-96), in the order of Object.entries
compoundMap ==
    << [key |-> "nacl", name |-> "NaCl", compound |-> <<"Na", "Cl">>, structure_type |-> NULL],
       [key |-> "sodium chloride", name |-> "NaCl", compound |-> <<"Na", "Cl">>, structure_type |-> NULL],
       [key |-> "mgo", name |-> "MgO", compound |-> <<"Mg", "O">>, structure_type |-> NULL],
       [key |-> "magnesium oxide", name |-> "MgO", compound |-> <<"Mg", "O">>, structure_type |-> NULL],
       [key |-> "gan", name |-> "GaN", compound |-> <<"Ga", "N">>, structure_type |-> NULL],
       [key |-> "gallium nitride", name |-> "GaN", compound |-> <<"Ga", "N">>, structure_type |-> NULL],
       [key |-> "gap", name |-> "GaP", compound |-> <<"Ga", "P">>, structure_type |-> NULL],
       [key |-> "gallium phosphide", name |-> "GaP", compound |-> <<"Ga", "P">>, structure_type |-> NULL],
       [key |-> "zns", name |-> "ZnS", compound |-> <<"Zn", "S">>, structure_type |-> NULL],
       [key |-> "zinc sulfide", name |-> "ZnS", compound |-> <<"Zn", "S">>, structure_type |-> NULL],
       [key |-> "tio2", name |-> "TiO2", compound |-> <<"Ti", "O">>, structure_type |-> NULL],
       [key |-> "titanium dioxide", name |-> "TiO2", compound |-> <<"Ti", "O">>, structure_type |-> NULL],
       [key |-> "sio2", name |-> "SiO2", compound |-> <<"Si", "O">>, structure_type |-> Some("quartz")],
       [key |-> "silicon dioxide", name |-> "SiO2", compound |-> <<"Si", "O">>, structure_type |-> Some("quartz")],
       [key |-> "quartz", name |-> "SiO2", compound |-> <<"Si", "O">>, structure_type |-> Some("quartz")],
       [key |-> "catio3", name |-> "CaTiO3", compound |-> <<"Ca", "Ti", "O">>, structure_type |-> NULL],
       [key |-> "calcium titanate", name |-> "CaTiO3", compound |-> <<"Ca", "Ti", "O">>, structure_type |-> NULL] >>

\* the entries of compoundMap whose key the text includes (line 99)
CompoundHits(s) == {k \in 1..Len(compoundMap) : includes(s, compoundMap[k].key)}

\* the body of the loop without lines 102-104
ApplyCompoundKeepType(r, value) ==
    [r EXCEPT !.material_name = value.name,
              !.compound = Some(value.compound)]

\* lines 100-104: the body of the loop for the entry value
ApplyCompound(r, value) ==
    [r EXCEPT !.material_name = value.name,
              !.compound = Some(value.compound),
              !.structure_type = IF value.structure_type # NULL
                                 THEN value.structure_type ELSE @]

-----------------------------------------------------------------------------
\* Lines 109-130: compound formulas

HasDigit(m) == \E i \in 1..Len(m) : Char(m, i) \in Digit

\* the loop of lines 114-129 with a stop-word test that keeps the letter case
\* of the match (commonWords.has(match))
RECURSIVE FormulaLoopCaseSensitive(_, _, _)
FormulaLoopCaseSensitive(matches, k, r) ==
    IF k > Len(matches) THEN r
    ELSE LET match == matches[k]
             elements == matchAll("element", match, 1)
             named == [r EXCEPT !.material_name = match]
         IN  IF match \in commonWords THEN FormulaLoopCaseSensitive(matches, k + 1, r)
             ELSE IF HasDigit(match)
                  THEN IF Len(elements) >= 2
                       THEN [named EXCEPT !.compound = Some(elements)]
                       ELSE FormulaLoopCaseSensitive(matches, k + 1, named)
             ELSE IF Len(match) = 2 /\ Char(match, 1) \in Upper /\ Char(match, 2) \in Upper
                  THEN [named EXCEPT !.compound = Some(<<Char(match, 1), Char(match, 2)>>)]
             ELSE FormulaLoopCaseSensitive(matches, k + 1, r)

\* the loop of lines 114-129 with a two-letter test that looks at the length
\* alone (match.length === 2)
RECURSIVE FormulaLoopAnyCase(_, _, _)
FormulaLoopAnyCase(matches, k, r) ==
    IF k > Len(matches) THEN r
    ELSE LET match == matches[k]
             elements == matchAll("element", match, 1)
             named == [r EXCEPT !.material_name = match]
         IN  IF toLowerCase(match) \in commonWords THEN FormulaLoopAnyCase(matches, k + 1, r)
             ELSE IF HasDigit(match)
                  THEN IF Len(elements) >= 2
                       THEN [named EXCEPT !.compound = Some(elements)]
                       ELSE FormulaLoopAnyCase(matches, k + 1, named)
             ELSE IF Len(match) = 2
                  THEN [named EXCEPT !.compound = Some(<<Char(match, 1), Char(match, 2)>>)]
             ELSE FormulaLoopAnyCase(matches, k + 1, r)

\* the loop of lines 114-129 from the k-th match on, r being the record
RECURSIVE FormulaLoop(_, _, _)
FormulaLoop(matches, k, r) ==
    IF k > Len(matches) THEN r
    ELSE LET match == matches[k]
             elements == matchAll("element", match, 1)
             named == [r EXCEPT !.material_name = match]
         IN  IF toLowerCase(match) \in commonWords THEN FormulaLoop(matches, k + 1, r)
             ELSE IF HasDigit(match)
                  THEN IF Len(elements) >= 2
                       THEN [named EXCEPT !.compound = Some(elements)]
                       ELSE FormulaLoop(matches, k + 1, named)
             ELSE IF Len(match) = 2 /\ Char(match, 1) \in Upper /\ Char(match, 2) \in Upper
                  THEN [named EXCEPT !.compound = Some(<<Char(match, 1), Char(match, 2)>>)]
             ELSE FormulaLoop(matches, k + 1, r)

\* lines 110-130
CompoundFormula(t, r) ==
    IF r.compound = NULL THEN FormulaLoop(matchAll("compound", t, 1), 1, r) ELSE r

-----------------------------------------------------------------------------
\* Lines 132-173: elements

\* elementMap (lines 134-156), in the order of Object.entries
elementMap ==
    << <<"silicon", "Si">>, <<"si", "Si">>,
       <<"aluminum", "Al">>, <<"aluminium", "Al">>, <<"al", "Al">>,
       <<"gold", "Au">>, <<"au", "Au">>,
       <<"copper", "Cu">>, <<"cu", "Cu">>,
       <<"iron", "Fe">>, <<"fe", "Fe">>,
       <<"titanium", "Ti">>, <<"ti", "Ti">>,
       <<"magnesium", "Mg">>, <<"mg", "Mg">>,
       <<"nickel", "Ni">>, <<"ni", "Ni">>,
       <<"zinc", "Zn">>, <<"zn", "Zn">>,
       <<"carbon", "C">>, <<"c", "C">>,
       <<"germanium", "Ge">>, <<"ge", "Ge">>,
       <<"chromium", "Cr">>, <<"cr", "Cr">>,
       <<"molybdenum", "Mo">>, <<"mo", "Mo">>,
       <<"tungsten", "W">>, <<"w", "W">>,
       <<"vanadium", "V">>, <<"v", "V">>,
       <<"cobalt", "Co">>, <<"co", "Co">>,
       <<"palladium", "Pd">>, <<"pd", "Pd">>,
       <<"platinum", "Pt">>, <<"pt", "Pt">>,
       <<"silver", "Ag">>, <<"ag", "Ag">>,
       <<"beryllium", "Be">>, <<"be", "Be">>,
       <<"zirconium", "Zr">>, <<"zr", "Zr">> >>

\* the entries of elementMap whose name the text includes (line 159)
ElementHits(s) == {k \in 1..Len(elementMap) : includes(s, elementMap[k][1])}

\* the loop of lines 158-163
ElementByName(s, r) ==
    IF ElementHits(s) = {} THEN r
    ELSE [r EXCEPT !.material_name = elementMap[Least(ElementHits(s))][2]]

\* elementSymbols.filter(...) (line 168)
RECURSIVE potentialElements(_)
potentialElements(ms) ==
    IF ms = << >> THEN << >>
    ELSE IF toLowerCase(Head(ms)) \notin commonWords /\ Len(Head(ms)) <= 2
         THEN <<Head(ms)>> \o potentialElements(Tail(ms))
         ELSE potentialElements(Tail(ms))

\* lines 166-172
ElementBySymbol(t, r) ==
    IF r.material_name = "Si" /\ potentialElements(matchAll("symbol", t, 1)) # << >>
    THEN [r EXCEPT !.material_name = potentialElements(matchAll("symbol", t, 1))[1]]
    ELSE r

\* lines 133-173 without the guard of line 133
ElementResolverAlways(t, s, r) == ElementBySymbol(t, ElementByName(s, r))

\* lines 133-173
ElementResolver(t, s, r) ==
    IF r.compound = NULL THEN ElementBySymbol(t, ElementByName(s, r)) ELSE r

-----------------------------------------------------------------------------
\* Lines 175-202: external sources

\* s has k at position i, letter case ignored (k in lower case)
HasAtIgnoreCase(s, i, k) ==
    i + Len(k) - 1 <= Len(s) /\ toLowerCase(SubSeq(s, i, i + Len(k) - 1)) = k

\* the position after the longest run of characters outside class C that starts at i
RECURSIVE RunEndNot(_, _, _)
RunEndNot(s, i, C) ==
    IF i <= Len(s) /\ Char(s, i) \notin C THEN RunEndNot(s, i + 1, C) ELSE i

\* /\bmp-\d+\b/i at position i: the position after the match, or 0.  \b after
\* \d+ needs a character that is no word character, or the end, after the
\* whole run of digits.
MpEnd(s, i) ==
    LET b == i + Len("mp-")
        e == RunEnd(s, b, Digit)
    IN  IF IsBoundary(s, i) /\ HasAtIgnoreCase(s, i, "mp-") /\ e > b /\ IsBoundary(s, e)
        THEN e ELSE 0

\* /\bcod-?\d+\b/i at position i: the position after the match, or 0
CodEnd(s, i) ==
    LET h == i + Len("cod")
        b == IF h <= Len(s) /\ Char(s, h) = "-" THEN h + 1 ELSE h
        e == RunEnd(s, b, Digit)
    IN  IF IsBoundary(s, i) /\ HasAtIgnoreCase(s, i, "cod") /\ e > b /\ IsBoundary(s, e)
        THEN e ELSE 0

\* /https?:\/\/\S+/ at position i: the position after the match, or 0
UrlEnd(s, i) ==
    LET h == i + Len("http")
        c == IF h <= Len(s) /\ Char(s, h) = "s" THEN h + 1 ELSE h
        b == c + Len("://")
        e == RunEndNot(s, b, Space)
    IN  IF HasAt(s, i, "http") /\ HasAt(s, c, "://") /\ e > b THEN e ELSE 0

SourceEnd(p, s, i) ==
    CASE p = "mp" -> MpEnd(s, i)
      [] p = "cod" -> CodEnd(s, i)
      [] p = "url" -> UrlEnd(s, i)

\* text.match(pattern): match[0] of the leftmost match, or NULL
SourceMatch(p, s) ==
    LET starts == {i \in 1..Len(s) : SourceEnd(p, s, i) > 0}
    IN  IF starts = {} THEN NULL
        ELSE Some(SubSeq(s, Least(starts), SourceEnd(p, s, Least(starts)) - 1))

\* codMatch[0].replace(/^cod-?/, "") (line 185): the pattern has no i flag
StripCod(m) ==
    IF ~HasAt(m, 1, "cod") THEN m
    ELSE IF HasAt(m, 4, "-") THEN From(m, 5) ELSE From(m, 4)

\* /[\/\\]/.test(text) || /\.(cif|xyz|vasp|poscar)$/.test(text) (line 197)
EndsWith(s, k) == Len(k) <= Len(s) /\ SubSeq(s, Len(s) - Len(k) + 1, Len(s)) = k

IsFile(s) ==
    \/ \E i \in 1..Len(s) : Char(s, i) \in {"/", "\\"}
    \/ \E ext \in {".cif", ".xyz", ".vasp", ".poscar"} : EndsWith(s, ext)

\* String.prototype.trim
trim(s) ==
    LET b == RunEnd(s, 1, Space)
        ends == {e \in b..Len(s) : Char(s, e) \notin Space}
    IN  IF ends = {} THEN "" ELSE SubSeq(s, b, Greatest(ends))

\* lines 176-202 with the identifier also written to source_params
DetectSourceWithParams(t, r) ==
    IF SourceMatch("mp", t) # NULL
    THEN [r EXCEPT !.material_name = SourceMatch("mp", t)[1], !.source_type = Some("mp"),
                   !.source_params = {"material_id"}]
    ELSE IF SourceMatch("cod", t) # NULL
    THEN [r EXCEPT !.material_name = StripCod(SourceMatch("cod", t)[1]), !.source_type = Some("cod"),
                   !.source_params = {"cod_id"}]
    ELSE IF SourceMatch("url", t) # NULL
    THEN [r EXCEPT !.material_name = SourceMatch("url", t)[1], !.source_type = Some("url"),
                   !.source_params = {"url"}]
    ELSE IF IsFile(t)
    THEN [r EXCEPT !.material_name = trim(t), !.source_type = Some("file"),
                   !.source_params = {"path"}]
    ELSE r

\* lines 176-202 returning, for an external source, a record whose geometry is
\* back at the defaults
DetectSourceFresh(t, r) ==
    LET fresh == [r EXCEPT !.supercell_dims = <<1, 1, 1>>, !.lattice_parameter = NULL]
    IN  IF SourceMatch("mp", t) # NULL
        THEN [fresh EXCEPT !.material_name = SourceMatch("mp", t)[1], !.source_type = Some("mp")]
        ELSE IF SourceMatch("cod", t) # NULL
        THEN [fresh EXCEPT !.material_name = StripCod(SourceMatch("cod", t)[1]), !.source_type = Some("cod")]
        ELSE IF SourceMatch("url", t) # NULL
        THEN [fresh EXCEPT !.material_name = SourceMatch("url", t)[1], !.source_type = Some("url")]
        ELSE IF IsFile(t)
        THEN [fresh EXCEPT !.material_name = trim(t), !.source_type = Some("file")]
        ELSE r

\* lines 176-202: the record that is returned
DetectSource(t, r) ==
    IF SourceMatch("mp", t) # NULL
    THEN [r EXCEPT !.material_name = SourceMatch("mp", t)[1], !.source_type = Some("mp")]
    ELSE IF SourceMatch("cod", t) # NULL
    THEN [r EXCEPT !.material_name = StripCod(SourceMatch("cod", t)[1]), !.source_type = Some("cod")]
    ELSE IF SourceMatch("url", t) # NULL
    THEN [r EXCEPT !.material_name = SourceMatch("url", t)[1], !.source_type = Some("url")]
    ELSE IF IsFile(t)
    THEN [r EXCEPT !.material_name = trim(t), !.source_type = Some("file")]
    ELSE r

-----------------------------------------------------------------------------
\* The call

\* a record whose material_name has no default
DefaultsUnnamed ==
    [ material_name |-> "",
      supercell_dims |-> <<1, 1, 1>>,
      structure_type |-> NULL,
      lattice_parameter |-> NULL,
      compound |-> NULL,
      source_type |-> NULL,
      source_params |-> EmptyObject,
      use_llm |-> FALSE,
      llm_provider |-> NULL,
      llm_params |-> EmptyObject ]

\* a record whose supercell_dims start at zero
DefaultsZeroDims ==
    [ material_name |-> "Si",
      supercell_dims |-> <<0, 0, 0>>,
      structure_type |-> NULL,
      lattice_parameter |-> NULL,
      compound |-> NULL,
      source_type |-> NULL,
      source_params |-> EmptyObject,
      use_llm |-> FALSE,
      llm_provider |-> NULL,
      llm_params |-> EmptyObject ]

\* lines 10-21
Defaults ==
    [ material_name |-> "Si",
      supercell_dims |-> <<1, 1, 1>>,
      structure_type |-> NULL,
      lattice_parameter |-> NULL,
      compound |-> NULL,
      source_type |-> NULL,
      source_params |-> EmptyObject,
      use_llm |-> FALSE,
      llm_provider |-> NULL,
      llm_params |-> EmptyObject ]

\* lines 6-21: the call starts
Enter ==
    /\ pc = "enter"
    /\ textLower' = toLowerCase(text)
    /\ result' = Defaults
    /\ pc' = "supercell"
    /\ UNCHANGED <<text, heap, history, appVars, inputVars>>

\* lines 23-36
ExtractSupercell ==
    /\ pc = "supercell"
    /\ result' = IF SupercellDims(textLower) = NULL THEN result
                 ELSE [result EXCEPT !.supercell_dims = SupercellDims(textLower)[1]]
    /\ pc' = "structure"
    /\ UNCHANGED <<text, textLower, heap, history, appVars, inputVars>>

\* lines 38-57
ExtractStructureType ==
    /\ pc = "structure"
    /\ result' = IF StructureType(textLower) = NULL THEN result
                 ELSE [result EXCEPT !.structure_type = StructureType(textLower)]
    /\ pc' = "lattice"
    /\ UNCHANGED <<text, textLower, heap, history, appVars, inputVars>>

\* lines 59-71
ExtractLattice ==
    /\ pc = "lattice"
    /\ result' = IF LatticeParameter(textLower) = NULL THEN result
                 ELSE [result EXCEPT !.lattice_parameter = LatticeParameter(textLower)]
    /\ pc' = "compoundMap"
    /\ UNCHANGED <<text, textLower, heap, history, appVars, inputVars>>

\* the loop of lines 98-107 without its return: the last key in the text wins
CompoundFoundLast ==
    /\ pc = "compoundMap"
    /\ CompoundHits(textLower) # {}
    /\ result' = ApplyCompound(result, compoundMap[Greatest(CompoundHits(textLower))])
    /\ pc' = "done"
    /\ UNCHANGED <<text, textLower, heap, history, appVars, inputVars>>

\* lines 98-107, a key of compoundMap is in the text: return result (line 105)
CompoundFound ==
    /\ pc = "compoundMap"
    /\ CompoundHits(textLower) # {}
    /\ result' = ApplyCompound(result, compoundMap[Least(CompoundHits(textLower))])
    /\ pc' = "done"
    /\ UNCHANGED <<text, textLower, heap, history, appVars, inputVars>>

\* lines 98-107, no key of compoundMap is in the text: the loop ends
CompoundNotFound ==
    /\ pc = "compoundMap"
    /\ CompoundHits(textLower) = {}
    /\ pc' = "formula"
    /\ UNCHANGED <<text, textLower, result, heap, history, appVars, inputVars>>

\* lines 109-130
ResolveFormula ==
    /\ pc = "formula"
    /\ result' = CompoundFormula(text, result)
    /\ pc' = "element"
    /\ UNCHANGED <<text, textLower, heap, history, appVars, inputVars>>

\* lines 132-173
ResolveElement ==
    /\ pc = "element"
    /\ result' = ElementResolver(text, textLower, result)
    /\ pc' = "source"
    /\ UNCHANGED <<text, textLower, heap, history, appVars, inputVars>>

\* lines 175-202: return result
ExternalSource ==
    /\ pc = "source"
    /\ result' = DetectSource(text, result)
    /\ pc' = "done"
    /\ UNCHANGED <<text, textLower, heap, history, appVars, inputVars>>

Next ==
    \/ Enter
    \/ ExtractSupercell
    \/ ExtractStructureType
    \/ ExtractLattice
    \/ CompoundFound
    \/ CompoundNotFound
    \/ ResolveFormula
    \/ ResolveElement
    \/ ExternalSource

-----------------------------------------------------------------------------
\* The inputs of a call: the texts made of at most MaxFrags fragments

MaxFrags == 3

RECURSIVE Join(_)
Join(fs) == IF fs = << >> THEN "" ELSE Head(fs) \o Join(Tail(fs))

Texts(Frags) == {Join(fs) : fs \in UNION {[1..k -> Frags] : k \in 0..MaxFrags}}

SourceFrags ==
    {"mp-1", "MP-2", "cod-3", "COD-4", "Cod5", "http://a", "/", ".cif", " ", "nacl", "Fe2O3"}

GeometryFrags ==
    {"2x3x4", "1 × 0 × 5", "supercell:", "6,7,8", "9 10 11", " ", "x", "1", "nacl", "mp-1"}

IdentityFrags ==
    {"nacl", "gap", "quartz", "fcc", " ", "Fe2O3", "iron", "Cu", "ga", "n", "mp-1"}

MixedFrags ==
    {"mp-1", "nacl", "Fe2O3", "Cu", "iron", "2x3x4", "a=4.", " ", "/"}

Init(Frags) ==
    /\ text \in Texts(Frags)
    /\ textLower = ""
    /\ result = NULL
    /\ pc = "enter"
    /\ heap = << >>
    /\ history = << >>
    /\ AppCreated
    /\ InputCreated

SpecSource == Init(SourceFrags) /\ [][Next]_vars

SpecGeometry == Init(GeometryFrags) /\ [][Next]_vars

SpecIdentity == Init(IdentityFrags) /\ [][Next]_vars

SpecTotal == Init(MixedFrags) /\ [][Next]_vars

-----------------------------------------------------------------------------
\* Properties of the returned record

\* the call has returned
Returned == pc = "done"

\* the characters of s from position a up to, not including, position b are all in C
AllIn(s, a, b, C) == \A q \in a..(b - 1) : Char(s, q) \in C

\* s is a numeral: one digit or more, nothing else
IsNumeral(s) == s # "" /\ AllIn(s, 1, Len(s) + 1, Digit)

\* the external-source rules of lines 176-197 that the text triggers
Triggers(t) ==
    {p \in {"mp", "cod", "url"} : SourceMatch(p, t) # NULL}
        \cup (IF IsFile(t) THEN {"file"} ELSE {})

\* C1: every text that holds an mp-<digits> token, whatever else it holds, is
\* returned with source_type "mp" and the token as its material_name.
C1_MpTokenAlwaysWins ==
    Returned /\ SourceMatch("mp", text) # NULL
        => /\ result.source_type = Some("mp")
           /\ result.material_name = SourceMatch("mp", text)[1]

\* C2: when the COD rule fires (a cod-?<digits> token in any letter case, no mp
\* token, no key of the compound dictionary), source_type is "cod" and the
\* material_name is the digits alone, the prefix stripped.
C2_CodPrefixStripped ==
    Returned /\ SourceMatch("cod", text) # NULL /\ SourceMatch("mp", text) = NULL
             /\ CompoundHits(textLower) = {}
        => /\ result.source_type = Some("cod")
           /\ IsNumeral(result.material_name)

\* C3: a returned record whose source_type is set has no compound.
C3_SourceWithoutCompound ==
    Returned /\ result.source_type # NULL => result.compound = NULL

\* C10: a text that triggers more than one external-source rule is returned
\* with one source_type, the one of the rule first in the order mp, cod, url,
\* file: "cod" only without an mp token, "url" only without an mp and a cod
\* token, "file" only when none of the three matched.
C10_SourcePriority ==
    Returned /\ Cardinality(Triggers(text)) >= 2
        => /\ result.source_type # NULL
           /\ result.source_type = Some("cod") => "mp" \notin Triggers(text)
           /\ result.source_type = Some("url") => Triggers(text) \cap {"mp", "cod"} = {}
           /\ result.source_type = Some("file") => Triggers(text) = {"file"}

-----------------------------------------------------------------------------
\* Triples of numerals in a text, stated through the positions of their parts

\* the value of the numeral that s holds from position a up to position b
RECURSIVE NumeralValue(_, _, _, _)
NumeralValue(s, a, b, acc) ==
    IF a >= b THEN acc
    ELSE NumeralValue(s, a + 1, b,
             10 * acc + (CHOOSE d \in 0..9 : Char(DigitSeq, d + 1) = Char(s, a)))

\* s[a..b) separates two numerals: white space around one character of Sep,
\* or (Sep empty) white space alone
IsGap(s, a, b, Sep) ==
    IF Sep = {} THEN a < b /\ AllIn(s, a, b, Space)
    ELSE \E x \in a..(b - 1) :
            Char(s, x) \in Sep /\ AllIn(s, a, x, Space) /\ AllIn(s, x + 1, b, Space)

\* the ways s holds numeral, gap, numeral, gap, numeral from position i on,
\* the last numeral to its end: <<e1, b2, e2, b3, e3>>, the numerals being
\* s[i..e1), s[b2..e2) and s[b3..e3)
TripleSpans(s, i, Sep) ==
    LET n == Len(s)
        NumeralEnds(b) == {e \in (b + 1)..(n + 1) : AllIn(s, b, e, Digit)}
        NextStarts(e) == {b \in (e + 1)..n : Char(s, b) \in Digit /\ IsGap(s, e, b, Sep)}
        LastEnds(b) == {e \in NumeralEnds(b) : e = n + 1 \/ Char(s, e) \notin Digit}
    IN  UNION { UNION { UNION { UNION { {<<e1, b2, e2, b3, e3>> : e3 \in LastEnds(b3)}
            : b3 \in NextStarts(e2) } : e2 \in NumeralEnds(b2) }
            : b2 \in NextStarts(e1) } : e1 \in NumeralEnds(i) }

TripleValues(s, i, Sep) ==
    { <<NumeralValue(s, i, sp[1], 0), NumeralValue(s, sp[2], sp[3], 0),
        NumeralValue(s, sp[4], sp[5], 0)>> : sp \in TripleSpans(s, i, Sep) }

\* the positions where a DxDxD or D×D×D triple starts
TimesTripleStarts(s) == {i \in 1..Len(s) : TripleSpans(s, i, Times) # {}}

\* s holds the word supercell, colons or white space, and a triple separated
\* by x, × or commas
HoldsSupercellTriple(s) ==
    \E i \in 1..Len(s) :
        /\ HasAt(s, i, "supercell")
        /\ \E e \in (i + Len("supercell") + 1)..Len(s) :
              /\ AllIn(s, i + Len("supercell"), e, Space \cup {":"})
              /\ TripleSpans(s, e, TimesComma) # {}

\* s matches none of the three patterns of lines 24-28
NoGeometry(s) ==
    /\ TimesTripleStarts(s) = {}
    /\ ~HoldsSupercellTriple(s)
    /\ \A i \in 1..Len(s) : TripleSpans(s, i, {}) = {}

\* s holds a numeral, not part of a longer one, whose digits are all zeros
HoldsZeroNumeral(s) ==
    \E a \in 1..Len(s) : \E b \in (a + 1)..(Len(s) + 1) :
        /\ AllIn(s, a, b, {"0"})
        /\ a = 1 \/ Char(s, a - 1) \notin Digit
        /\ b = Len(s) + 1 \/ Char(s, b) \notin Digit

\* C5: when the text holds a DxDxD or D×D×D triple, white space allowed around
\* the separators, supercell_dims is the three integers of the leftmost such
\* triple, in the order of the text, whatever surrounds it.
C5_TimesTripleIsDims ==
    Returned /\ TimesTripleStarts(text) # {}
        => TripleValues(text, Least(TimesTripleStarts(text)), Times) = {result.supercell_dims}

\* a text with two triples, the first after other text, returned with the first
C5_Witness ==
    /\ Returned
    /\ Cardinality(TimesTripleStarts(text)) >= 2
    /\ Least(TimesTripleStarts(text)) > 1
    /\ result.supercell_dims \in TripleValues(text, Least(TimesTripleStarts(text)), Times)

\* C6: a text that matches none of the three geometry patterns is returned with
\* supercell_dims = [1, 1, 1].
C6_DefaultDims ==
    Returned /\ NoGeometry(textLower) => result.supercell_dims = <<1, 1, 1>>

\* a text with digits in it and no geometry pattern, returned with [1, 1, 1]
C6_Witness ==
    /\ Returned
    /\ NoGeometry(textLower)
    /\ \E i \in 1..Len(text) : Char(text, i) \in Digit
    /\ result.supercell_dims = <<1, 1, 1>>

\* C7, as claimed: each of the three components of supercell_dims is an integer
\* greater than or equal to 1.
C7_DimsAtLeastOne ==
    Returned => \A k \in 1..3 : result.supercell_dims[k] \in Nat /\ result.supercell_dims[k] >= 1

\* C7, amended: supercell_dims has three components, each an integer greater
\* than or equal to 0, and 0 only when the text writes a numeral of zeros.
C7_DimsNatural ==
    Returned =>
        /\ Len(result.supercell_dims) = 3
        /\ \A k \in 1..3 :
              /\ result.supercell_dims[k] \in Nat
              /\ result.supercell_dims[k] = 0 => HoldsZeroNumeral(textLower)

\* a record returned with a component that is 0
C7_Witness ==
    Returned /\ \E k \in 1..3 : result.supercell_dims[k] = 0

-----------------------------------------------------------------------------
\* The compound dictionary

\* the k-th key of compoundMap is in the lowercased text
KeyIn(k) == includes(textLower, compoundMap[k].key)

\* C8: a text without an external-source trigger whose lower case holds a key
\* of the compound dictionary is returned with the display name and the element
\* list of the first such key in the order of the dictionary, whatever formula,
\* element name or symbol it also holds and wherever the keys stand in it.
C8_FirstKeyWins ==
    Returned /\ Triggers(text) = {}
        => \A k \in 1..Len(compoundMap) :
              KeyIn(k) /\ (\A j \in 1..(k - 1) : ~KeyIn(j))
                  => /\ result.material_name = compoundMap[k].name
                     /\ result.compound = Some(compoundMap[k].compound)

\* a text that holds the key gap before the key nacl, and a formula or an
\* element besides, returned as NaCl
C8_Witness ==
    /\ Returned
    /\ Triggers(text) = {}
    /\ \E i \in 1..Len(textLower) : \E j \in (i + 1)..Len(textLower) :
          HasAt(textLower, i, "gap") /\ HasAt(textLower, j, "nacl")
    /\ \E f \in {"Fe2O3", "iron", "Cu"} : includes(text, f)
    /\ result.material_name = "NaCl"
    /\ result.compound = Some(<<"Na", "Cl">>)

\* the keys of compoundMap whose entry carries a structure_type (lines 91-93)
ForcedKeys == {"sio2", "silicon dioxide", "quartz"}

\* C9: when the winning entry of the compound dictionary carries a structure
\* type (keys sio2, silicon dioxide, quartz) the returned structure_type is
\* "quartz", whatever family the keywords of the text selected; when it carries
\* none, the structure_type the keywords selected is returned unchanged.
C9_ForcedStructureType ==
    Returned /\ (\E k \in 1..Len(compoundMap) : KeyIn(k))
        => LET k == Least({j \in 1..Len(compoundMap) : KeyIn(j)})
           IN  IF compoundMap[k].key \in ForcedKeys
               THEN result.structure_type = Some("quartz")
               ELSE result.structure_type = StructureType(textLower)

\* a text with the key quartz and the keyword fcc, returned as quartz
C9_Witness ==
    /\ Returned
    /\ includes(textLower, "quartz")
    /\ StructureType(textLower) = Some("fcc")
    /\ result.structure_type = Some("quartz")

-----------------------------------------------------------------------------
\* Totality

Fields ==
    {"material_name", "supercell_dims", "structure_type", "lattice_parameter", "compound",
     "source_type", "source_params", "use_llm", "llm_provider", "llm_params"}

\* every nullable field holds null or one value
Nullable(v) == v = NULL \/ Len(v) = 1

Populated(r) ==
    /\ DOMAIN r = Fields
    /\ Len(r.supercell_dims) = 3
    /\ Nullable(r.structure_type) /\ Nullable(r.lattice_parameter)
    /\ Nullable(r.compound) /\ Nullable(r.source_type) /\ Nullable(r.llm_provider)
    /\ r.use_llm \in BOOLEAN

\* nothing in the text names a material: no key of either dictionary, no
\* capital letter, no external source
NoIdentity(t) ==
    /\ \A k \in 1..Len(compoundMap) : ~includes(toLowerCase(t), compoundMap[k].key)
    /\ \A k \in 1..Len(elementMap) : ~includes(toLowerCase(t), elementMap[k][1])
    /\ \A i \in 1..Len(t) : Char(t, i) \notin Upper
    /\ Triggers(t) = {}

\* the stages of the function body, in the order of the source
stages ==
    <<"enter", "supercell", "structure", "lattice", "compoundMap", "formula", "element",
      "source", "done">>

Rank(p) == CHOOSE k \in 1..Len(stages) : stages[k] = p

\* C4: for every text, the empty one included, the call returns a record with
\* all ten fields, supercell_dims with three entries: every step takes the call
\* to a later stage of the body (no stage is run twice, so no call runs for
\* ever), a call that has not returned is at a stage of the body, and the record
\* that is returned is populated; a text that names no material is returned as
\* "Si".
C4_Total ==
    /\ [][Rank(pc') > Rank(pc)]_vars
    /\ [](pc \in {stages[k] : k \in 1..Len(stages)})
    /\ [](Returned => Populated(result))
    /\ [](Returned /\ NoIdentity(text) => result.material_name = "Si")

\* a text that is not empty and names no material, returned as "Si"
C4_Witness ==
    /\ Returned
    /\ text # ""
    /\ NoIdentity(text)
    /\ Populated(result)
    /\ result.material_name = "Si"

-----------------------------------------------------------------------------
\* Elements, stop words and formulas

ElementFrags ==
    {"I want ", "silicon", "iron", "Cu", " ", "OF", "The ", "OO", "FeO2", "H2", "nacl"}

SpecElement == Init(ElementFrags) /\ [][Next]_vars

\* the k-th name of elementMap is in the lowercased text
ElementKeyIn(k) == includes(textLower, elementMap[k][1])

\* C11: when a name or symbol of the element dictionary is in the lowercased
\* text and neither a compound nor an external source is resolved, the
\* material_name that is returned is the symbol of the first such key in the
\* order of the dictionary: the bare-symbol fallback has not replaced it.
C11_ElementNameWins ==
    Returned /\ result.compound = NULL /\ result.source_type = NULL
             /\ (\E k \in 1..Len(elementMap) : ElementKeyIn(k))
        => result.material_name
               = elementMap[Least({k \in 1..Len(elementMap) : ElementKeyIn(k)})][2]

-----------------------------------------------------------------------------
\* The vocabulary of structure_type and source_type

StructureFrags ==
    {"fcc", "bcc", "sc", "rock salt", "sphalerite", "quartz", "nacl", " ",
     "mp-1", "cod-3", "http://a", "/"}

SpecStructure == Init(StructureFrags) /\ [][Next]_vars

StructureTags ==
    {"fcc", "bcc", "hcp", "diamond", "sc", "zincblende", "rocksalt", "wurtzite",
     "perovskite", "rutile", "quartz"}

SourceTags == {"mp", "cod", "url", "file"}

\* C12: in every returned record structure_type is null or one of the eleven
\* tags fcc, bcc, hcp, diamond, sc, zincblende, rocksalt, wurtzite, perovskite,
\* rutile, quartz, and source_type is null or one of mp, cod, url, file.
C12_Vocabulary ==
    Returned =>
        /\ result.structure_type = NULL \/ \E t \in StructureTags : result.structure_type = Some(t)
        /\ result.source_type = NULL \/ \E t \in SourceTags : result.source_type = Some(t)

\* a text that names a family by a synonym that is not its tag, and a URL
C12_Witness ==
    /\ Returned
    /\ includes(textLower, "sphalerite")
    /\ result.structure_type = Some("zincblende")
    /\ result.source_type = Some("url")

\* the families in the order of the table
FamilyOrder ==
    <<"fcc", "bcc", "hcp", "diamond", "sc", "zincblende", "rocksalt", "wurtzite",
      "perovskite", "rutile">>

\* the lowercased text holds a synonym of the f-th family
HoldsFamily(f) ==
    \E k \in 1..Len(structureKeywords) :
        /\ structureKeywords[k].type = FamilyOrder[f]
        /\ \E j \in 1..Len(structureKeywords[k].keywords) :
              includes(textLower, structureKeywords[k].keywords[j])

FamiliesHeld == {f \in 1..Len(FamilyOrder) : HoldsFamily(f)}

\* C13: when the lowercased text holds synonyms of two or more families, the
\* structure_type written by the structure stage (before the compound
\* dictionary can override it) is the family that comes first in the order of
\* the table, wherever the synonyms stand in the text.
C13_TableOrder ==
    pc = "lattice" /\ Cardinality(FamiliesHeld) >= 2
        => result.structure_type = Some(FamilyOrder[Least(FamiliesHeld)])

\* a text that starts with a synonym of zincblende and holds fcc after it
C13_Witness ==
    /\ pc = "lattice"
    /\ HasAt(textLower, 1, "sphalerite")
    /\ includes(textLower, "fcc")
    /\ result.structure_type = Some("fcc")

-----------------------------------------------------------------------------
\* Stop words and compounds

StopList ==
    {"the", "for", "get", "calculate", "energy", "force", "structure", "supercell",
     "bulk", "of", "a", "an", "in", "on", "at"}

\* C14: a stop-list word, in any letter case, is never accepted as a candidate:
\* no material_name that is returned is a stop-list word when lowercased, and
\* the formula heuristic derives no compound from a token that is one (when it
\* has set a compound, the material_name it wrote with it is that token).
C14_StopWordsRejected ==
    /\ Returned => toLowerCase(result.material_name) \notin StopList
    /\ pc = "element" /\ result.compound # NULL
           => toLowerCase(result.material_name) \notin StopList

\* a text that starts with the word OF in capitals, returned without a compound
C14_Witness ==
    /\ Returned
    /\ HasAt(text, 1, "OF ")
    /\ result.compound = NULL
    /\ toLowerCase(result.material_name) \notin StopList

\* C15: a compound that is returned is a list of two or more element symbols,
\* no two of them the same.
C15_DistinctSymbols ==
    Returned /\ result.compound # NULL
        => LET c == result.compound[1]
           IN  /\ Len(c) >= 2
               /\ \A i \in 1..Len(c) : \A j \in 1..Len(c) : i # j => c[i] # c[j]

\* tok is a formula token of the symbols c: the symbols one after the other
\* and then digits, at least one digit unless it is two capital letters
IsFormulaOf(tok, c) ==
    \E d \in 0..Len(tok) :
        /\ AllIn(tok, Len(tok) - d + 1, Len(tok) + 1, Digit)
        /\ SubSeq(tok, 1, Len(tok) - d) = Join(c)
        /\ d = 0 => Len(tok) = 2 /\ Char(tok, 1) \in Upper /\ Char(tok, 2) \in Upper

\* C20: a record returned with a compound and without a source_type has the
\* display name of the compound as its material_name: the name of the
\* dictionary entry whose key is in the text, or the formula token of the text
\* from which the compound was derived, not a symbol written by the element
\* dictionary or the bare-symbol fallback.
C20_CompoundNamesRecord ==
    Returned /\ result.compound # NULL /\ result.source_type = NULL
        => \/ \E k \in 1..Len(compoundMap) :
                 /\ KeyIn(k)
                 /\ result.material_name = compoundMap[k].name
                 /\ result.compound = Some(compoundMap[k].compound)
           \/ /\ includes(text, result.material_name)
              /\ IsFormulaOf(result.material_name, result.compound[1])

\* a text with a formula and the name of an element, returned under the formula
C20_Witness ==
    /\ Returned
    /\ includes(textLower, "iron")
    /\ result.source_type = NULL
    /\ result.compound = Some(<<"Fe", "O">>)
    /\ result.material_name = "FeO2"

-----------------------------------------------------------------------------
\* The lattice parameter

LatticeFrags ==
    {"a=", "l =", "lattice", " constant", ":", ".", "4", "1.5", " ", "nacl"}

SpecLattice == Init(LatticeFrags) /\ [][Next]_vars

\* C16: a lattice_parameter that is returned is a number: the value of the
\* numeral that was captured, never NaN, whatever follows the equals sign
\* ("a=.", "a=..").
C16_LatticeIsNumber ==
    Returned /\ result.lattice_parameter # NULL
        => /\ result.lattice_parameter[1] # NaN
           /\ DOMAIN result.lattice_parameter[1] = {"num", "den"}

-----------------------------------------------------------------------------
\* Fields the identity stages leave alone

\* C17: every returned record has use_llm = false, llm_provider = null,
\* llm_params = {} and source_params = {}: the call never populates them.
C17_CallerFieldsInert ==
    Returned =>
        /\ result.use_llm = FALSE
        /\ result.llm_provider = NULL
        /\ result.llm_params = EmptyObject
        /\ result.source_params = EmptyObject

\* a record returned for an external source, its source_params empty
C17_Witness ==
    /\ Returned
    /\ result.source_type = Some("mp")
    /\ result.source_params = EmptyObject
    /\ result.use_llm = FALSE /\ result.llm_provider = NULL /\ result.llm_params = EmptyObject

\* the supercell_dims and the lattice_parameter the geometry and lattice stages
\* compute from a lowercased text
DimsOf(s) == IF SupercellDims(s) = NULL THEN <<1, 1, 1>> ELSE SupercellDims(s)[1]

\* C18: supercell_dims is written by the geometry stage alone and
\* lattice_parameter by the lattice stage alone: no later step changes either,
\* whichever identity branch runs and whether or not an external source is
\* found, and the record is returned with the values those stages computed
\* from the text.
C18_GeometryKept ==
    /\ [][/\ pc \notin {"enter", "supercell"} => result'.supercell_dims = result.supercell_dims
          /\ pc \notin {"enter", "lattice"} => result'.lattice_parameter = result.lattice_parameter]_vars
    /\ [](Returned => /\ result.supercell_dims = DimsOf(textLower)
                      /\ result.lattice_parameter = LatticeParameter(textLower))

\* a text with a triple, a lattice parameter and a Materials Project token,
\* returned as an external source with the triple and the parameter
C18_Witness ==
    /\ Returned
    /\ result.source_type = Some("mp")
    /\ result.supercell_dims = <<2, 3, 4>>
    /\ result.lattice_parameter = Some([num |-> 4, den |-> 1])

-----------------------------------------------------------------------------
\* Calls one after the other, and a caller that changes what they returned

\* An object is a cell of heap: the place of the source where it was created
\* (site) and what it holds (val).  A reference to it is its index in heap.

\* a literal evaluated once for the whole module: the object is created the
\* first time and every later evaluation yields that same object
LiteralOnce(h, site, v) ==
    IF \E k \in 1..Len(h) : h[k].site = site THEN h ELSE Append(h, [site |-> site, val |-> v])

\* an object or array literal evaluated inside the call (lines 10-21, 33,
\* 78-96, 118, 125): a new object each time
Literal(h, site, v) == Append(h, [site |-> site, val |-> v])

\* the object the last evaluation of the literal at site yielded
Latest(h, site) == Greatest({k \in 1..Len(h) : h[k].site = site})

\* the record the reference ref stands for, its arrays and objects read from h
Deref(h, ref) ==
    LET rec == h[ref].val
    IN  [rec EXCEPT !.supercell_dims = h[@].val,
                    !.compound = IF @ = NULL THEN NULL ELSE Some(h[@[1]].val),
                    !.source_params = h[@].val,
                    !.llm_params = h[@].val]

MaxCalls == 2

MaxChanges == 1

CallTexts == {"", "nacl", "Fe2O3 2x3x4"}

NumberOf(kind) == Cardinality({k \in 1..Len(history) : history[k].kind = kind})

\* App.vue line 39: the caller calls parseMaterialRequest(text)
Invoke ==
    /\ pc = "idle"
    /\ NumberOf("call") < MaxCalls
    /\ text' \in CallTexts
    /\ pc' = "enter"
    /\ UNCHANGED <<textLower, result, heap, history, appVars, inputVars>>

\* the call returns: the caller holds the record, an object created by this
\* call (line 10) whose supercell_dims, compound, source_params and llm_params
\* are objects created by this call too
Return ==
    /\ pc = "done"
    /\ LET h1 == Literal(heap, "supercell_dims", result.supercell_dims)
           h2 == Literal(h1, "source_params", result.source_params)
           h3 == Literal(h2, "llm_params", result.llm_params)
           h4 == IF result.compound = NULL THEN h3
                 ELSE Literal(h3, "compound", result.compound[1])
           rec == [result EXCEPT !.supercell_dims = Latest(h4, "supercell_dims"),
                                 !.source_params = Latest(h4, "source_params"),
                                 !.llm_params = Latest(h4, "llm_params"),
                                 !.compound = IF @ = NULL THEN NULL
                                              ELSE Some(Latest(h4, "compound"))]
           h5 == Literal(h4, "result", rec)
       IN  /\ heap' = h5
           /\ history' = Append(history,
                  [kind |-> "call", text |-> text, ref |-> Latest(h5, "result"),
                   value |-> Deref(h5, Latest(h5, "result"))])
    /\ pc' = "idle"
    /\ UNCHANGED <<text, textLower, result, appVars, inputVars>>

\* the parts of a returned record a caller can write to
Parts == {"material_name", "supercell_dims", "compound", "source_params", "llm_params"}

\* the caller writes to a record a call returned: to a field of the record, to
\* an entry of one of its arrays, or a new property to one of its objects
Mutate ==
    /\ pc = "idle"
    /\ NumberOf("change") < MaxChanges
    /\ \E k \in 1..Len(history) : \E part \in Parts :
          /\ history[k].kind = "call"
          /\ LET rec == heap[history[k].ref].val
             IN  /\ part = "compound" => rec.compound # NULL
                 /\ heap' =
                      CASE part = "material_name" ->
                             [heap EXCEPT ![history[k].ref].val.material_name = "changed"]
                        [] part = "supercell_dims" ->
                             [heap EXCEPT ![rec.supercell_dims].val[1] = @ + 1]
                        [] part = "compound" ->
                             [heap EXCEPT ![rec.compound[1]].val[1] = "changed"]
                        [] part = "source_params" ->
                             [heap EXCEPT ![rec.source_params].val = @ \cup {"changed"}]
                        [] part = "llm_params" ->
                             [heap EXCEPT ![rec.llm_params].val = @ \cup {"changed"}]
          /\ history' = Append(history, [kind |-> "change", of |-> k, part |-> part])
    /\ UNCHANGED <<text, textLower, result, pc, appVars, inputVars>>

NextCalls == Next \/ Invoke \/ Return \/ Mutate

InitCalls ==
    /\ text = ""
    /\ textLower = ""
    /\ result = NULL
    /\ pc = "idle"
    /\ heap = << >>
    /\ history = << >>
    /\ AppCreated
    /\ InputCreated

SpecCalls == InitCalls /\ [][NextCalls]_vars

\* C19: two calls with the same text return equal records, whatever calls were
\* made between them and whatever the caller wrote, between them, to the
\* records that earlier calls returned (to their fields, to their compound and
\* supercell_dims arrays, to their source_params and llm_params objects).
C19_CallsIndependent ==
    \A i \in 1..Len(history) : \A j \in 1..Len(history) :
        history[i].kind = "call" /\ history[j].kind = "call" /\ history[i].text = history[j].text
            => history[i].value = history[j].value

\* a call, then a write to an array or an object of the record it returned,
\* then a call with the same text that returned the same record
C19_Witness ==
    \E i \in 1..Len(history) : \E m \in (i + 1)..Len(history) : \E j \in (m + 1)..Len(history) :
        /\ history[i].kind = "call" /\ history[j].kind = "call"
        /\ history[m].kind = "change" /\ history[m].of = i /\ history[m].part = "compound"
        /\ history[i].text = history[j].text
        /\ history[i].value = history[j].value
        /\ Deref(heap, history[i].ref) # history[i].value

-----------------------------------------------------------------------------
\* COD identifiers

CodFrags ==
    {"Fetch ", "COD entry ", "2000001", "cod-3", "cod", " ", "nacl", "Fe2O3"}

SpecCod == Init(CodFrags) /\ [][Next]_vars

\* a numeral that stands alone in s: digits between two word boundaries
HoldsBareNumeral(s) ==
    \E i \in 1..Len(s) :
        /\ IsBoundary(s, i)
        /\ RunEnd(s, i, Digit) > i
        /\ IsBoundary(s, RunEnd(s, i, Digit))

\* C21: a text that names a COD entry, by a cod-<digits> token or by a bare
\* numeral such as 2000001, and that holds no mp token and no key of the
\* compound dictionary, is returned with source_type "cod".
C21_CodBothForms ==
    Returned /\ SourceMatch("mp", text) = NULL /\ CompoundHits(textLower) = {}
             /\ (SourceMatch("cod", text) # NULL \/ HoldsBareNumeral(text))
        => result.source_type = Some("cod")

-----------------------------------------------------------------------------
\* Candidates of the formula heuristic that are not accepted

\* C22: a candidate of the formula heuristic that is examined and not
\* accepted updates nothing: when the element resolver is entered with no
\* compound (no candidate was accepted), material_name is still the
\* default "Si".
C22_RejectedCandidateNoUpdate ==
    pc = "element" /\ result.compound = NULL => result.material_name = "Si"

-----------------------------------------------------------------------------
\* Precedence among the three geometry patterns

\* the positions where the word supercell starts a "supercell: a,b,c" triple
SupercellTripleStarts(s) ==
    {i \in 1..Len(s) :
        /\ HasAt(s, i, "supercell")
        /\ \E e \in (i + Len("supercell") + 1)..Len(s) :
              /\ AllIn(s, i + Len("supercell"), e, Space \cup {":"})
              /\ TripleSpans(s, e, TimesComma) # {}}

\* the triple that follows the word supercell at position i
SupercellTripleValues(s, i) ==
    UNION {TripleValues(s, e, TimesComma) :
              e \in {x \in (i + Len("supercell") + 1)..Len(s) :
                        AllIn(s, i + Len("supercell"), x, Space \cup {":"})}}

\* the positions where three numerals separated by white space alone start
SpaceTripleStarts(s) == {i \in 1..Len(s) : TripleSpans(s, i, {}) # {}}

\* C23: the geometry patterns are ranked by kind, not by position: a text
\* with an x/× triple anywhere has the integers of its leftmost x/× triple as
\* supercell_dims, whatever triple stands before it; a text without one and
\* with a "supercell: a,b,c" triple has the integers of the leftmost such
\* triple, whatever three bare integers stand before it.
C23_PatternPrecedence ==
    Returned =>
        /\ TimesTripleStarts(textLower) # {}
              => result.supercell_dims
                    \in TripleValues(textLower, Least(TimesTripleStarts(textLower)), Times)
        /\ TimesTripleStarts(textLower) = {} /\ SupercellTripleStarts(textLower) # {}
              => result.supercell_dims
                    \in SupercellTripleValues(textLower, Least(SupercellTripleStarts(textLower)))

\* a text whose three bare integers start before its x/× triple, returned
\* with the integers of the x/× triple and not with the three bare integers
C23_Witness ==
    /\ Returned
    /\ TimesTripleStarts(textLower) # {}
    /\ \E i \in SpaceTripleStarts(textLower) :
          /\ i < Least(TimesTripleStarts(textLower))
          /\ result.supercell_dims \notin TripleValues(textLower, i, {})
    /\ result.supercell_dims
          \in TripleValues(textLower, Least(TimesTripleStarts(textLower)), Times)

-----------------------------------------------------------------------------
\* The two-letter heuristic

TwoLetterFrags ==
    {"Na", "Cl", "ZnO", "MG", "OF", "H2", " ", "nacl", "Fe2O3"}

SpecTwoLetter == Init(TwoLetterFrags) /\ [][Next]_vars

\* tok is two capital letters
IsTwoCapitals(tok) ==
    Len(tok) = 2 /\ Char(tok, 1) \in Upper /\ Char(tok, 2) \in Upper

\* C24: when the formula heuristic has accepted a token without digits, the
\* token is two characters, both capital letters, the compound is its two
\* letters in the order of the text and material_name is the token; a token
\* such as "Na", "Cl" or "ZnO" is never accepted.  A text that is just two
\* capitals, not a stop word, is accepted so.
C24_TwoCapitalsOnly ==
    /\ pc = "element" /\ result.compound # NULL /\ ~HasDigit(result.material_name)
          => /\ IsTwoCapitals(result.material_name)
             /\ includes(text, result.material_name)
             /\ result.compound
                   = Some(<<Char(result.material_name, 1), Char(result.material_name, 2)>>)
    /\ pc = "element" /\ IsTwoCapitals(text) /\ textLower \notin commonWords
          => /\ result.material_name = text
             /\ result.compound = Some(<<Char(text, 1), Char(text, 2)>>)

\* "MG" after a properly cased symbol or a longer token without digits: the
\* earlier token was passed over and MG became the compound [M, G]
C24_Witness ==
    /\ pc = "element"
    /\ \/ HasAt(text, 1, "Na ") \/ HasAt(text, 1, "Cl ") \/ HasAt(text, 1, "ZnO ")
    /\ result.material_name = "MG"
    /\ result.compound = Some(<<"M", "G">>)

-----------------------------------------------------------------------------
\* The keys of the element dictionary as whole texts

ToUpperChar(c) ==
    IF c \in Lower THEN Char(UpperSeq, CHOOSE i \in 1..Len(LowerSeq) : Char(LowerSeq, i) = c)
    ELSE c

\* a key with its first letter as a capital: "Silicon", "Si"
Capitalised(k) == ToUpperChar(Char(k, 1)) \o From(k, 2)

ElementKeys == {elementMap[k][1] : k \in 1..Len(elementMap)}

\* each key alone, in lower case and capitalised, and one compound name
KeyTexts == ElementKeys \cup {Capitalised(k) : k \in ElementKeys} \cup {"nacl"}

InitKeys ==
    /\ text \in KeyTexts
    /\ textLower = ""
    /\ result = NULL
    /\ pc = "enter"
    /\ heap = << >>
    /\ history = << >>
    /\ AppCreated
    /\ InputCreated

SpecKeys == InitKeys /\ [][Next]_vars

\* C25: a text that is just one key of elementMap, in lower case or
\* capitalised, is returned with the symbol elementMap gives for that key as
\* its material_name.
C25_KeyResolvesToOwnSymbol ==
    Returned =>
        \A k \in 1..Len(elementMap) :
            textLower = elementMap[k][1] => result.material_name = elementMap[k][2]

-----------------------------------------------------------------------------
\* The stages of the call as functions of the text

\* lines 10-71: the defaults and the three geometry fields
Geometry(tl) ==
    LET r1 == IF SupercellDims(tl) = NULL THEN Defaults
              ELSE [Defaults EXCEPT !.supercell_dims = SupercellDims(tl)[1]]
        r2 == IF StructureType(tl) = NULL THEN r1
              ELSE [r1 EXCEPT !.structure_type = StructureType(tl)]
    IN  IF LatticeParameter(tl) = NULL THEN r2
        ELSE [r2 EXCEPT !.lattice_parameter = LatticeParameter(tl)]

\* lines 98-202: the record returned, r being the record after line 71 and
\* named the record the element resolver leaves (used when no key of
\* compoundMap is in the text)
Identity(t, tl, r, named) ==
    IF CompoundHits(tl) # {}
    THEN ApplyCompound(r, compoundMap[Least(CompoundHits(tl))])
    ELSE DetectSource(t, named)

-----------------------------------------------------------------------------
\* api/backend.js: sendCalculationRequest(parsed, useGPU, llmProvider, userInput)

\* an object with one property, as its set of properties
Object1(key, value) == {<<key, value>>}

\* parseInt(x) of a number: the number is written in decimal and read again
parseIntOfNumber(x) == parseInt(ToString(x))

\* parseFloat(x) of a number: NaN stays NaN, a number is written and read again
parseFloatOfNumber(x) == IF x = NaN THEN NaN ELSE x

\* the model of llm_params (lines 25-27)
ModelOf(llmProvider) ==
    CASE llmProvider = "openai" -> Some("gpt-4o-mini")
      [] llmProvider = "anthropic" -> Some("claude-3-haiku-20240307")
      [] llmProvider = "ollama" -> Some("llama3")
      [] OTHER -> NULL

\* const payload (lines 9-30); useGPU is a boolean, llmProvider a string or null
Payload(parsed, useGPU, llmProvider, userInput) ==
    [ intent |-> "CALCULATE",
      material_name |-> IF parsed.material_name = "" THEN "Si" ELSE parsed.material_name,
      user_input |-> userInput,
      structure_details |->
        [ supercell_dims |->
              [k \in DOMAIN parsed.supercell_dims |-> parseIntOfNumber(parsed.supercell_dims[k])],
          structure_type |-> parsed.structure_type,
          lattice_parameter |->
              IF parsed.lattice_parameter # NULL
              THEN Some(parseFloatOfNumber(parsed.lattice_parameter[1])) ELSE NULL,
          compound |-> parsed.compound,
          source_type |-> parsed.source_type,
          source_params |-> parsed.source_params,
          use_llm |-> useGPU,
          llm_provider |-> llmProvider,
          llm_params |-> IF useGPU /\ llmProvider # NULL
                         THEN Object1("model", ModelOf(llmProvider[1])) ELSE EmptyObject ] ]

\* JSON.stringify(payload) (line 38), as the value the text denotes: NaN is
\* written as null, every other value of a payload as itself
stringify(payload) ==
    [payload EXCEPT !.structure_details.lattice_parameter =
                        IF @ # NULL /\ @[1] = NaN THEN NULL ELSE @]

\* what sendCalculationRequest resolves to
Success(data) == [success |-> TRUE, data |-> Some(data), error |-> NULL]
Failure(error) == [success |-> FALSE, data |-> NULL, error |-> error]

\* the bodies a response can have: text that is not JSON, the JSON null, or
\* a JSON object with the properties the frontend reads
NotJSON == [json |-> FALSE]
JSONNull == [json |-> TRUE, null |-> TRUE]
JSONObject(detail, energy, xyz) ==
    [json |-> TRUE, null |-> FALSE, detail |-> detail, energy |-> energy, structure_xyz |-> xyz]

\* lines 46-48: errorDetail
ErrorDetail(errorData, status) ==
    CASE errorData.detail = "absent" -> Some("HTTP " \o ToString(status))
      [] errorData.detail = "array" -> Some("detail[0].msg")
      [] errorData.detail = "empty array" -> NULL
      [] OTHER -> Some("detail")

\* lines 41-50 with the catch of lines 51-59: what the call resolves to once
\* response.json() has settled
ReadBody(response) ==
    IF response.ok
    THEN IF response.body.json THEN Success(response.body)
         ELSE Failure(Some("SyntaxError"))
    ELSE IF ~response.body.json
         THEN Failure(ErrorDetail(JSONObject("absent", "absent", NULL), response.status))
         ELSE IF response.body.null THEN Failure(Some("TypeError"))
         ELSE Failure(ErrorDetail(response.body, response.status))

\* lines 51-59: fetch has thrown
FetchFailed(error) ==
    IF error = "TypeError: Failed to fetch"
    THEN Failure(Some("Connection Failed: Cannot connect to backend at http://127.0.0.1:8000/calculate/"))
    ELSE Failure(Some(error))

-----------------------------------------------------------------------------
\* App.vue: onSend(payload)

MaxSends == 2

\* the texts and the agents the input can emit
AppTexts == {"", " ", "nacl", "a=."}
Agents == {"Agent", "openai"}

\* an entry of messages: ['user', text] or ['bot', html], with the invocation
\* of onSend that wrote it
UserMessage(i) == [role |-> "user", kind |-> "text", of |-> i]
BotMessage(kind, i) == [role |-> "bot", kind |-> kind, of |-> i]

\* data.structure_xyz of the response to request i: a string whose first line
\* is the number of atoms, or a value that is not a string
XYZ(i, string, atoms) == [of |-> i, string |-> string, atoms |-> atoms]

\* the responses fetch can be fulfilled with for request i
OkBodies(i) ==
    { NotJSON, JSONNull,
      JSONObject("absent", "absent", NULL),
      JSONObject("absent", "number", Some(XYZ(i, TRUE, 8))),
      JSONObject("absent", "number", Some(XYZ(i, TRUE, 1))),
      JSONObject("absent", "string", Some(XYZ(i, TRUE, 8))),
      JSONObject("absent", "number", Some(XYZ(i, FALSE, 0))) }

ErrorBodies ==
    { NotJSON, JSONNull,
      JSONObject("absent", "absent", NULL),
      JSONObject("string", "absent", NULL),
      JSONObject("array", "absent", NULL),
      JSONObject("empty array", "absent", NULL) }

Responses(i) ==
    {[ok |-> TRUE, status |-> 200, body |-> b] : b \in OkBodies(i)}
        \cup {[ok |-> FALSE, status |-> 500, body |-> b] : b \in ErrorBodies}

\* what fetch can throw
FetchErrors == {"TypeError: Failed to fetch", "AbortError"}

\* the index one too low: the entry pushed before the placeholder
LoadingIdxBefore(msgs) == Len(msgs) - 1

\* line 46: const loadingIdx = messages.value.length (an index from 0)
LoadingIdx(msgs) == Len(msgs)

\* messages.value[idx] = msg (lines 68, 88, 91), idx an index from 0
Put(msgs, idx, msg) ==
    IF idx + 1 \in DOMAIN msgs THEN [msgs EXCEPT ![idx + 1] = msg]
    ELSE [k \in 1..(idx + 1) |-> IF k \in DOMAIN msgs THEN msgs[k] ELSE msg]

\* a catch that writes nothing
CaughtSilently(msgs, idx, i) == msgs

\* lines 90-92: catch (error)
Caught(msgs, idx, i) == Put(msgs, idx, BotMessage("error", i))

\* lines 52-89 with the catch of lines 90-92: messages and lastXYZ after the
\* continuation of invocation i has run on the result r
OnResult(msgs, xyz, debug, idx, r, i) ==
    IF ~r.success
    THEN [messages |-> Put(msgs, idx, BotMessage("error", i)), lastXYZ |-> xyz]
    ELSE LET data == r.data[1]
             shown == Put(msgs, idx, BotMessage("result", i))
         IN  IF ~data.json \/ data.null \/ data.energy = "string"
             THEN [messages |-> Caught(msgs, idx, i), lastXYZ |-> xyz]
             ELSE IF data.structure_xyz = NULL
             THEN [messages |-> shown, lastXYZ |-> xyz]
             ELSE IF ~data.structure_xyz[1].string
             THEN [messages |-> Caught(shown, idx, i), lastXYZ |-> data.structure_xyz]
             ELSE [messages |-> IF debug /\ data.structure_xyz[1].atoms = 1
                                THEN Append(shown, BotMessage("warning", i)) ELSE shown,
                   lastXYZ |-> data.structure_xyz]

\* lines 30-50 and backend.js lines 7-39: onSend up to the await of fetch.
\* The call of line 39 runs the stages of parseMaterialRequest one after the
\* other; each stage's record is a value before the next stage reads it.
OnSend(t, agent) ==
    /\ Len(sends) < MaxSends
    /\ IF trim(t) = ""
       THEN /\ sends' = Append(sends,
                  [pc |-> "returned", text |-> Some(t), agent |-> NULL, loadingIdx |-> NULL,
                   parsed |-> NULL, request |-> NULL, response |-> NULL, result |-> NULL])
            /\ UNCHANGED messages
       ELSE \E tl \in {toLowerCase(t)} :
            \E r \in {Geometry(tl)} :
            \E formula \in {CompoundFormula(t, r)} :
            \E named \in {ElementResolver(t, tl, formula)} :
            \E parsed \in {Identity(t, tl, r, named)} :
                LET i == Len(sends) + 1
                    pushed == Append(messages, UserMessage(i))
                    useLLM == agent # "Agent"
                    llmProvider == IF useLLM THEN Some(agent) ELSE NULL
                IN  /\ messages' = Append(pushed, BotMessage("loading", i))
                    /\ sends' = Append(sends,
                          [pc |-> "fetch", text |-> Some(t), agent |-> Some(agent),
                           loadingIdx |-> Some(LoadingIdx(pushed)),
                           parsed |-> Some(parsed),
                           request |-> Some(stringify(Payload(parsed, useLLM, llmProvider, t))),
                           response |-> NULL, result |-> NULL])
    /\ UNCHANGED <<lastXYZ, debugMode, parserVars, inputVars>>

\* an invocation whose request has left: of the locals of lines 31-46 the
\* steps after the await read loadingIdx alone
Sent(send, at, response, resolved) ==
    [pc |-> at, text |-> NULL, agent |-> NULL, loadingIdx |-> send.loadingIdx,
     parsed |-> NULL, request |-> NULL, response |-> response, result |-> resolved]

\* backend.js line 33: fetch is fulfilled with a response
FetchFulfilled(i) ==
    /\ i \in DOMAIN sends
    /\ sends[i].pc = "fetch"
    /\ \E response \in Responses(i) :
          sends' = [sends EXCEPT ![i] = Sent(@, "json", Some(response), NULL)]
    /\ UNCHANGED <<messages, lastXYZ, debugMode, parserVars, inputVars>>

\* backend.js lines 33 and 51-59: fetch throws
FetchRejected(i) ==
    /\ i \in DOMAIN sends
    /\ sends[i].pc = "fetch"
    /\ \E error \in FetchErrors :
          sends' = [sends EXCEPT ![i] = Sent(@, "resolved", NULL, Some(FetchFailed(error)))]
    /\ UNCHANGED <<messages, lastXYZ, debugMode, parserVars, inputVars>>

\* backend.js lines 41-50: response.json() settles and the call resolves
JsonSettled(i) ==
    /\ i \in DOMAIN sends
    /\ sends[i].pc = "json"
    /\ sends' = [sends EXCEPT ![i] = Sent(@, "resolved", NULL, Some(ReadBody(@.response[1])))]
    /\ UNCHANGED <<messages, lastXYZ, debugMode, parserVars, inputVars>>

\* lines 50-93: onSend after the await; the error text has gone into the
\* message
Continue(i) ==
    /\ i \in DOMAIN sends
    /\ sends[i].pc = "resolved"
    /\ LET after == OnResult(messages, lastXYZ, debugMode,
                             sends[i].loadingIdx[1], sends[i].result[1], i)
       IN  /\ messages' = after.messages
           /\ lastXYZ' = after.lastXYZ
    /\ sends' = [sends EXCEPT ![i] = Sent(@, "done", NULL, Some([@.result[1] EXCEPT !.error = NULL]))]
    /\ UNCHANGED <<debugMode, parserVars, inputVars>>

\* line 3: the sidebar switches debugMode
ToggleDebug ==
    /\ debugMode' = ~debugMode
    /\ UNCHANGED <<messages, lastXYZ, sends, parserVars, inputVars>>

NextApp ==
    \/ \E t \in AppTexts : \E agent \in Agents : OnSend(t, agent)
    \/ \E i \in 1..MaxSends : FetchFulfilled(i)
    \/ \E i \in 1..MaxSends : FetchRejected(i)
    \/ \E i \in 1..MaxSends : JsonSettled(i)
    \/ \E i \in 1..MaxSends : Continue(i)
    \/ ToggleDebug

\* the page is loaded: no call of the parser is running
InitApp ==
    /\ text = ""
    /\ textLower = ""
    /\ result = NULL
    /\ pc = "idle"
    /\ heap = << >>
    /\ history = << >>
    /\ AppCreated
    /\ InputCreated

SpecApp == InitApp /\ [][NextApp]_vars

-----------------------------------------------------------------------------
\* Properties of the chat under overlapping invocations of onSend

\* the invocations that pushed a placeholder
Pushed == {i \in DOMAIN sends : sends[i].pc # "returned"}

\* the entry of messages at the index invocation i keeps in loadingIdx
Slot(i) == messages[sends[i].loadingIdx[1] + 1]

\* C26: whatever the order of the sends and of the responses, the entry at an
\* invocation's loadingIdx is the bot entry of that invocation (its
\* placeholder, its result or its error), every user message is there,
\* followed at once by the bot entry of the same invocation, and a step
\* changes no user message and no entry of another invocation, and removes
\* none.
C26_OwnPlaceholderOnly ==
    /\ [](\A i \in Pushed :
            /\ sends[i].loadingIdx[1] + 1 \in DOMAIN messages
            /\ Slot(i).role = "bot" /\ Slot(i).of = i
            /\ Slot(i).kind \in {"loading", "result", "error"}
            /\ messages[sends[i].loadingIdx[1]] = UserMessage(i))
    /\ [](\A k \in DOMAIN messages :
            messages[k].role = "user"
                => /\ k + 1 \in DOMAIN messages
                   /\ messages[k + 1].role = "bot"
                   /\ messages[k + 1].of = messages[k].of
                   /\ messages[k + 1].kind # "warning")
    /\ [][/\ Len(messages') >= Len(messages)
          /\ \A k \in DOMAIN messages :
                messages'[k] # messages[k]
                    => /\ messages[k] = BotMessage("loading", messages[k].of)
                       /\ messages'[k].of = messages[k].of
                       /\ messages'[k].role = "bot"]_vars

\* the second of two overlapping invocations has written its result while
\* the first still shows its placeholder
C26_Witness ==
    /\ Len(sends) = 2
    /\ Pushed = {1, 2}
    /\ sends[1].pc \in {"fetch", "json", "resolved"}
    /\ sends[2].pc = "done"
    /\ Slot(1) = BotMessage("loading", 1)
    /\ Slot(2) = BotMessage("result", 2)

\* the response to request i held a structure that onSend showed
Showed(i) ==
    /\ sends[i].pc = "done"
    /\ sends[i].result[1].success
    /\ LET data == sends[i].result[1].data[1]
       IN  /\ data.json /\ ~data.null /\ data.energy # "string"
           /\ data.structure_xyz # NULL /\ data.structure_xyz[1].string

AllCompleted == \A i \in DOMAIN sends : sends[i].pc \in {"done", "returned"}

\* C27: when every invocation has completed, lastXYZ is the structure_xyz of
\* the response to the request submitted last among those that returned one,
\* whatever the order of the responses.
C27_LastSubmittedShown ==
    AllCompleted /\ (\E i \in DOMAIN sends : Showed(i))
        => LET last == Greatest({i \in DOMAIN sends : Showed(i)})
           IN  lastXYZ = sends[last].result[1].data[1].structure_xyz

\* the event loop runs the continuation of an invocation whose call of
\* sendCalculationRequest has resolved
SpecAppFair == SpecApp /\ \A i \in 1..MaxSends : WF_vars(Continue(i))

\* the placeholder of invocation i has been replaced
Replaced(i) ==
    /\ i \in DOMAIN sends
    /\ sends[i].pc = "done"
    /\ Slot(i) \in {BotMessage("result", i), BotMessage("error", i)}

\* the request of invocation i has settled (sendCalculationRequest has
\* resolved) and its placeholder is still there
Settled(i) == i \in DOMAIN sends /\ sends[i].pc = "resolved"

\* C28: once the request of an invocation has settled, its placeholder is
\* eventually replaced by a result or an error message, whatever the response
\* was (the invocation does not stay settled for ever, and the step that ends
\* that state replaces the placeholder), and it stays replaced; an invocation
\* with a blank text, and no other, returns at once, adds no message and
\* sends no request.
C28_PlaceholderReplaced ==
    /\ \A i \in 1..MaxSends : []<>~Settled(i)
    /\ [][\A i \in DOMAIN sends : Settled(i) /\ ~Settled(i)' => Replaced(i)']_vars
    /\ [](\A i \in DOMAIN sends : sends[i].pc = "done" => Replaced(i))
    /\ [](\A i \in DOMAIN sends :
            /\ sends[i].pc = "returned" => trim(sends[i].text[1]) = ""
            /\ sends[i].pc = "fetch" => trim(sends[i].text[1]) # "")
    /\ [][\A i \in DOMAIN sends' :
            i \notin DOMAIN sends /\ sends'[i].pc = "returned"
                => messages' = messages /\ sends'[i].request = NULL]_vars

\* a response whose data made the formatting throw, its placeholder replaced
\* by an error message, beside an invocation with a blank text
C28_Witness ==
    /\ \E i \in DOMAIN sends :
          /\ sends[i].pc = "done"
          /\ sends[i].result[1].success
          /\ Slot(i) = BotMessage("error", i)
    /\ \E j \in DOMAIN sends : sends[j].pc = "returned"

\* the fields of structure_details that come from the parsed record
CarriedFields ==
    {"supercell_dims", "structure_type", "lattice_parameter", "compound",
     "source_type", "source_params"}

\* C29: sendCalculationRequest never rejects: every call that has settled has
\* resolved to {success: true, data} or {success: false, error}; and the
\* request in flight carries the material_name and the six structure fields
\* of the parsed record, with use_llm true exactly when the agent is not
\* "Agent".
C29_ResolvesAndCarriesParsed ==
    \A i \in DOMAIN sends :
        /\ sends[i].pc \in {"returned", "fetch", "json", "resolved", "done"}
        /\ sends[i].pc = "resolved"
              => LET r == sends[i].result[1]
                 IN  IF r.success THEN r.data # NULL ELSE r.data = NULL
        /\ sends[i].pc = "fetch"
              => LET sent == sends[i].request[1]
                     parsed == sends[i].parsed[1]
                 IN  /\ sent.material_name = parsed.material_name
                     /\ \A f \in CarriedFields : sent.structure_details[f] = parsed[f]
                     /\ sent.structure_details.use_llm = (sends[i].agent[1] # "Agent")

-----------------------------------------------------------------------------
\* FloatingInput: the alignment retry of onMounted

\* line 110: tries > 50
MaxTries == 50

\* clearInterval(timer): the running intervals without the one timer names
\* (clearInterval(null) clears nothing)
clearInterval(running, timer) == IF timer = NULL THEN running ELSE running \ {timer[1]}

\* lines 104-114 without line 112: an attempt that gives up leaves
\* positionReady as it is.  ok is what applyAlignment returned.
alignAndReadyKeepsHidden(ok, ready, n, timer, running) ==
    [ positionReady |-> ok \/ ready,
      tries |-> n + 1,
      intervals |-> IF ok \/ n + 1 > MaxTries THEN clearInterval(running, timer) ELSE running ]

\* lines 104-114: alignAndReady.  ok is what applyAlignment returned (lines
\* 49-90: true when .left-column was found and the style was set).
alignAndReady(ok, ready, n, timer, running) ==
    [ positionReady |-> IF ok THEN TRUE
                        ELSE IF n + 1 > MaxTries THEN TRUE ELSE ready,
      tries |-> n + 1,
      intervals |-> IF ok \/ n + 1 > MaxTries THEN clearInterval(running, timer) ELSE running ]

\* lines 102-122: onMounted.  alignAndReady runs once while retryTimer is
\* still null (line 116), then the interval is started (line 117).
Mount ==
    /\ phase = "created"
    /\ \E ok \in BOOLEAN :
          LET after == alignAndReady(ok, positionReady, 0, retryTimer, intervals)
          IN  /\ positionReady' = after.positionReady
              /\ tries' = after.tries
              /\ retryTimer' = Some(1)
              /\ intervals' = after.intervals \cup {1}
    /\ phase' = "mounted"
    /\ UNCHANGED <<parserVars, appVars>>

\* line 117: the interval fires and calls alignAndReady
Tick ==
    /\ retryTimer # NULL
    /\ retryTimer[1] \in intervals
    /\ \E ok \in BOOLEAN :
          LET after == alignAndReady(ok, positionReady, tries, retryTimer, intervals)
          IN  /\ positionReady' = after.positionReady
              /\ tries' = after.tries
              /\ intervals' = after.intervals
    /\ UNCHANGED <<retryTimer, phase, parserVars, appVars>>

\* lines 124-127: onBeforeUnmount
Unmount ==
    /\ phase = "mounted"
    /\ intervals' = clearInterval(intervals, retryTimer)
    /\ phase' = "unmounted"
    /\ UNCHANGED <<positionReady, retryTimer, tries, parserVars, appVars>>

NextInput == Mount \/ Tick \/ Unmount

\* the component is mounted once it is created, and an interval that is
\* running fires
SpecInput == InitApp /\ [][NextInput]_vars /\ WF_vars(Mount) /\ WF_vars(Tick)

\* C30: in the retry that onMounted starts, while the component is mounted,
\* positionReady eventually becomes true whether or not an alignment ever
\* succeeds (a component that is unmounted in between has its interval
\* cleared by onBeforeUnmount); the interval is eventually cleared and stays
\* cleared; there are never more than 51 attempts, the interval is never
\* running after the 51st, and once an attempt has cleared the interval the
\* input is shown.
C30_RetryEnds ==
    /\ <>(positionReady \/ phase = "unmounted")
    /\ <>[](phase # "created" /\ intervals = {})
    /\ [](tries <= MaxTries + 1)
    /\ [](intervals # {} => tries <= MaxTries)
    /\ [](phase = "mounted" /\ intervals = {} => positionReady)

\* 51 attempts have been made, the interval has been cleared and the input is
\* shown
C30_Witness ==
    /\ phase = "mounted"
    /\ tries = MaxTries + 1
    /\ intervals = {}
    /\ positionReady

====
